---- MODULE Spec2Model ----
(***************************************************************************)
(* LeafletProvider (src/src/xch/providers/leaflet/leaflet_provider.ts) on  *)
(* top of the MessageManager it drives.  The provider's methods and the    *)
(* consumeMessage closures they install are translated from the source.    *)
(* MessageManager, AddressUtil and Util.coin are imported by the provider  *)
(* but their files are not part of the sources at hand: registry,          *)
(* dispatch, timeout scheduler and close follow spec.md section 4.2 and 5. *)
(***************************************************************************)
EXTENDS Integers, Sequences, FiniteSets, TLC

\* ------------------------------------------------------------------ bounds
MaxCalls == 2
MaxFrames == 2
ApiMaxCalls == 1
DispatchMaxFrames == 1

\* --------------------------------------------------------------- constants
\* leaflet_provider.ts:54  expectedMaxRensponseWait: 120 * 1000
PeakWatcherWait == 120 * 1000
\* spec.md section 3: expected_max_response_wait defaults to 15 000 ms
DefaultMaxResponseWait == 15000
\* spec.md section 3: delete_after_first_consumed defaults to true
DefaultDeleteAfterFirst == TRUE
\* leaflet_provider.ts:17  (a string is a sequence of characters)
ADDRESS_PREFIX == <<"x", "c", "h">>

\* ------------------------------------------------------------------ values
\* Optional<number> null
Null == 0 - 1
\* an argument that was not passed
Undefined == "undefined"
UndefinedAddress == <<"u", "n", "d", "e", "f">>

\* hex strings handed to the provider: two well-formed 32-byte hashes and one
\* string that is not hex
ValidHashes == {"h1", "h2"}
HashInputs == ValidHashes \cup {"zz"}
Heights == {1, 2}
\* the heights and header hashes requests are made for
RequestHeights == {1}
HeaderHashInputs == {"h1", "zz"}

\* addresses: a valid xch address of h1, an xch-prefixed string whose
\* checksum is wrong, and an address of another network
AddrH1 == <<"x", "c", "h", "1", "a">>
AddrBad == <<"x", "c", "h", "1", "?">>
AddrOther == <<"t", "x", "c", "h", "1", "a">>
AddressInputs == {UndefinedAddress, AddrH1, AddrBad, AddrOther}

\* String.prototype.startsWith
StartsWith(s, p) == Len(s) >= Len(p) /\ SubSeq(s, 1, Len(p)) = p

\* AddressUtil.validateHashString: the hash when the string is a 32-byte hex
\* string, the empty string otherwise
validateHashString(s) == IF s \in ValidHashes THEN s ELSE ""

\* AddressUtil.addressToPuzzleHash: the decoded puzzle hash, or the empty
\* string when the bech32m string does not decode
addressToPuzzleHash(a) == IF a = AddrH1 THEN "h1" ELSE ""

\* coin states carried by frames
Coin(parent, ph, amount) ==
    [parentCoinInfo |-> parent, puzzleHash |-> ph, amount |-> amount]
CoinState(c, spent) == [coin |-> c, spentHeight |-> spent]
csA == CoinState(Coin("h2", "h1", 100), Null)
csB == CoinState(Coin("h2", "h1", 250), 42)
csC == CoinState(Coin("h1", "h2", 7), Null)
CoinStateLists == {<< >>, <<csC>>, <<csA, csB, csC>>}

\* Util.coin.getId: sha256 of the coin's serialization, an injective naming
\* of the coins above
getId(c) ==
    IF c = csA.coin THEN "h1" ELSE IF c = csC.coin THEN "h2" ELSE "h3"

\* Array.prototype.includes
Includes(seq, x) == \E i \in 1..Len(seq) : seq[i] = x

\* ---------------------------------------------------------------- messages
\* A decoded inbound frame.  One record shape for every type; a field a type
\* does not carry holds its empty value.
Msg(type, hashes, hash, height, endHeight, coinStates) ==
    [type |-> type, hashes |-> hashes, hash |-> hash, height |-> height,
     endHeight |-> endHeight, coinStates |-> coinStates]
NoMsg == Msg("none", << >>, "", Null, Null, << >>)

HashLists == {<<"h1">>, <<"h2">>, <<"h1", "h2">>}

KeyedTypes ==
    {"respond_puzzle_solution", "reject_puzzle_solution",
     "respond_removals", "reject_removals_request",
     "respond_additions", "reject_additions_request"}
HeightTypes == {"respond_block_header", "reject_header_request"}
RangeTypes == {"respond_header_blocks", "reject_header_blocks"}

\* the (hash, height) and (startHeight, endHeight) keys frames carry: the
\* key requests are made for and keys that differ from it in one field
FrameKeys == {<<"h1", 1>>, <<"h2", 1>>, <<"h1", 2>>}
FrameRanges == {<<1, 2>>, <<1, 1>>, <<2, 2>>}

Frames ==
    {Msg("new_peak_wallet", << >>, "", h, Null, << >>) : h \in Heights}
    \cup {Msg("respond_to_ph_update", hs, "", Null, Null, <<csA, csB, csC>>) :
            hs \in HashLists}
    \cup {Msg("respond_to_coin_update", hs, "", Null, Null, <<csA, csB, csC>>) :
            hs \in HashLists \ {<<"h1", "h2">>}}
    \cup {Msg("respond_children", << >>, "", Null, Null, cs) :
            cs \in CoinStateLists}
    \cup {Msg(t, << >>, k[1], k[2], Null, << >>) :
            t \in KeyedTypes, k \in FrameKeys}
    \cup {Msg(t, << >>, "", h, Null, << >>) : t \in HeightTypes, h \in Heights}
    \cup {Msg(t, << >>, "", r[1], r[2], << >>) :
            t \in RangeTypes, r \in FrameRanges}

\* ----------------------------------------------------------------- filters
\* A registered MessageFilter.  consumeMessage names the closure, and hash,
\* height, endHeight are the variables the closure captured.
Filter(consume, hash, height, endHeight, deleteAfter, wait) ==
    [id |-> 0, consumeMessage |-> consume, hash |-> hash, height |-> height,
     endHeight |-> endHeight, deleteAfterFirstMessageConsumed |-> deleteAfter,
     expectedMaxRensponseWait |-> wait]

\* An outbound frame (makeMsg)
Out(type, hashes, hash, height, endHeight) ==
    [type |-> type, hashes |-> hashes, hash |-> hash, height |-> height,
     endHeight |-> endHeight]
NoOut == Out("none", << >>, "", Null, Null)

Ids == 0..MaxCalls

VARIABLES
    chan,          \* MessageManager lifecycle: "new", "open", "closed"
    filters,       \* MessageManager.filters, in insertion order
    sent,          \* frames handed to the channel, in order
    completion,    \* per call id: the promise registerFilter returned
    captured,      \* per call id: the closure's respPckt / returnNull / coinStates
    result,        \* per call id: what the provider method returned
    cbLog,         \* per call id: the invocations of the subscription callback
    blockNumber,   \* LeafletProvider.blockNumber
    nextId,        \* calls that reached registerFilter so far
    frameNo,       \* inbound frames dispatched so far
    timeoutsFired, \* per call id: how often the timeout scheduler fired
    dropped,       \* inbound frames dropped because a closure failed to decode
    last           \* the operation that ran last and what its caller saw

vars == <<chan, filters, sent, completion, captured, result, cbLog,
          blockNumber, nextId, frameNo, timeoutsFired, dropped, last>>

\* the variables MessageManager owns
managerVars ==
    <<chan, filters, sent, completion, nextId, timeoutsFired, dropped>>
\* the variables the provider and its closures own
providerVars == <<captured, result, cbLog, blockNumber>>

NoCapture == [returnNull |-> FALSE, respPckt |-> NoMsg, coinStates |-> << >>]
NoResult == [tag |-> "none", n |-> Null, items |-> << >>]
Last(op, ret, n) == [op |-> op, ret |-> ret, n |-> n]

Init ==
    /\ chan = "new"
    /\ filters = << >>
    /\ sent = << >>
    /\ completion = [i \in Ids |-> "none"]
    /\ captured = [i \in Ids |-> NoCapture]
    /\ result = [i \in Ids |-> NoResult]
    /\ cbLog = [i \in Ids |-> << >>]
    /\ blockNumber = Null
    /\ nextId = 0
    /\ frameNo = 0
    /\ timeoutsFired = [i \in Ids |-> 0]
    /\ dropped = 0
    /\ last = Last("constructor", "void", 0)

\* ------------------------------------------------- consumeMessage closures
\* A closure reads the frame and may write the provider's blockNumber, its
\* own captured variables, or call the user's callback.  ps is the state the
\* closures write: [blockNumber, captured, cbLog, frame]; the value is
\* [ret |-> what consumeMessage returned, ps |-> the state it left].
Ret(b, ps) == [ret |-> b, ps |-> ps, threw |-> FALSE]

\* the closure ended by an exception instead of returning
Throw(ps) == [ret |-> FALSE, ps |-> ps, threw |-> TRUE]

\* the height field of a new_peak_wallet frame whose data
\* Serializer.deserialize / BigNumber.from cannot decode
Undecodable == 0 - 2

\* the peak only ever raised
peakWatcherConsume_keepsMax(f, msg, ps) ==
    IF msg.type # "new_peak_wallet"
    THEN Ret(FALSE, ps)
    ELSE Ret(TRUE, [ps EXCEPT !.blockNumber =
                        IF msg.height > @ THEN msg.height ELSE @])

\* a failed decode clears the cached peak
peakWatcherConsume_clearsOnError(f, msg, ps) ==
    IF msg.type # "new_peak_wallet"
    THEN Ret(FALSE, ps)
    ELSE IF msg.height = Undecodable
    THEN Throw([ps EXCEPT !.blockNumber = Null])
    ELSE Ret(TRUE, [ps EXCEPT !.blockNumber = msg.height])

peakWatcherConsume(f, msg, ps) ==
    IF msg.type # "new_peak_wallet"
    THEN Ret(FALSE, ps)
    ELSE IF msg.height = Undecodable
    THEN Throw(ps)
    ELSE Ret(TRUE, [ps EXCEPT !.blockNumber = msg.height])

getBalanceConsume(f, msg, ps) ==
    IF msg.type # "respond_to_ph_update"
    THEN Ret(FALSE, ps)
    ELSE IF ~Includes(msg.hashes, f.hash)
    THEN Ret(FALSE, ps)
    ELSE Ret(TRUE, [ps EXCEPT !.captured[f.id].coinStates =
            SelectSeq(msg.coinStates, LAMBDA cs : cs.coin.puzzleHash = f.hash)])

Callback(ps, id, coins) ==
    [ps EXCEPT !.cbLog[id] = Append(@, [frame |-> ps.frame, coins |-> coins])]

\* the callback invoked without the frame being reported as consumed
subscribeToPuzzleHashUpdatesConsume_returnsFalse(f, msg, ps) ==
    IF msg.type # "respond_to_ph_update"
    THEN Ret(FALSE, ps)
    ELSE IF ~Includes(msg.hashes, f.hash)
    THEN Ret(FALSE, ps)
    ELSE Ret(FALSE, Callback(ps, f.id,
            SelectSeq(msg.coinStates, LAMBDA cs : cs.coin.puzzleHash = f.hash)))

\* the callback invoked before the puzzle hash is looked up in the frame
subscribeToPuzzleHashUpdatesConsume_callbackFirst(f, msg, ps) ==
    IF msg.type # "respond_to_ph_update"
    THEN Ret(FALSE, ps)
    ELSE Ret(Includes(msg.hashes, f.hash),
             Callback(ps, f.id,
                SelectSeq(msg.coinStates,
                          LAMBDA cs : cs.coin.puzzleHash = f.hash)))

subscribeToPuzzleHashUpdatesConsume(f, msg, ps) ==
    IF msg.type # "respond_to_ph_update"
    THEN Ret(FALSE, ps)
    ELSE IF ~Includes(msg.hashes, f.hash)
    THEN Ret(FALSE, ps)
    ELSE Ret(TRUE, Callback(ps, f.id,
            SelectSeq(msg.coinStates, LAMBDA cs : cs.coin.puzzleHash = f.hash)))

\* the callback handed every coin state of the frame
subscribeToCoinUpdatesConsume_unfiltered(f, msg, ps) ==
    IF msg.type # "respond_to_coin_update"
    THEN Ret(FALSE, ps)
    ELSE IF ~Includes(msg.hashes, f.hash)
    THEN Ret(FALSE, ps)
    ELSE Ret(TRUE, Callback(ps, f.id, msg.coinStates))

subscribeToCoinUpdatesConsume(f, msg, ps) ==
    IF msg.type # "respond_to_coin_update"
    THEN Ret(FALSE, ps)
    ELSE IF ~Includes(msg.hashes, f.hash)
    THEN Ret(FALSE, ps)
    ELSE Ret(TRUE, Callback(ps, f.id,
            SelectSeq(msg.coinStates, LAMBDA cs : getId(cs.coin) = f.hash)))

\* getPuzzleSolution, getCoinRemovals, getCoinAdditions: a reject or a
\* respond frame whose (hash, height) equal the request's
KeyedConsume(f, msg, ps, rejectType, respondType) ==
    IF msg.type = rejectType /\ msg.hash = f.hash /\ msg.height = f.height
    THEN Ret(TRUE, [ps EXCEPT !.captured[f.id].returnNull = TRUE])
    ELSE IF msg.type = respondType /\ msg.hash = f.hash /\ msg.height = f.height
    THEN Ret(TRUE, [ps EXCEPT !.captured[f.id].respPckt = msg])
    ELSE Ret(FALSE, ps)

getPuzzleSolutionConsume(f, msg, ps) ==
    KeyedConsume(f, msg, ps, "reject_puzzle_solution", "respond_puzzle_solution")

getCoinRemovalsConsume(f, msg, ps) ==
    KeyedConsume(f, msg, ps, "reject_removals_request", "respond_removals")

getCoinAdditionsConsume(f, msg, ps) ==
    KeyedConsume(f, msg, ps, "reject_additions_request", "respond_additions")

getCoinChildrenConsume(f, msg, ps) ==
    IF msg.type # "respond_children"
    THEN Ret(FALSE, ps)
    ELSE IF Len(msg.coinStates) = 0
            \/ msg.coinStates[1].coin.parentCoinInfo = f.hash
    THEN Ret(TRUE, [ps EXCEPT !.captured[f.id].respPckt = msg])
    ELSE Ret(FALSE, ps)

\* the height of the frame not compared with the requested height
getBlockHeaderConsume_anyHeight(f, msg, ps) ==
    IF msg.type = "reject_header_request"
    THEN Ret(TRUE, [ps EXCEPT !.captured[f.id].returnNull = TRUE])
    ELSE IF msg.type = "respond_block_header"
    THEN Ret(TRUE, [ps EXCEPT !.captured[f.id].respPckt = msg])
    ELSE Ret(FALSE, ps)

getBlockHeaderConsume(f, msg, ps) ==
    IF msg.type = "reject_header_request" /\ msg.height = f.height
    THEN Ret(TRUE, [ps EXCEPT !.captured[f.id].returnNull = TRUE])
    ELSE IF msg.type = "respond_block_header" /\ msg.height = f.height
    THEN Ret(TRUE, [ps EXCEPT !.captured[f.id].respPckt = msg])
    ELSE Ret(FALSE, ps)

\* endHeight not compared
getBlocksHeadersConsume_startOnly(f, msg, ps) ==
    IF msg.type = "reject_header_blocks" /\ msg.height = f.height
    THEN Ret(TRUE, [ps EXCEPT !.captured[f.id].returnNull = TRUE])
    ELSE IF msg.type = "respond_header_blocks" /\ msg.height = f.height
    THEN Ret(TRUE, [ps EXCEPT !.captured[f.id].respPckt = msg])
    ELSE Ret(FALSE, ps)

getBlocksHeadersConsume(f, msg, ps) ==
    IF /\ msg.type = "reject_header_blocks"
       /\ msg.height = f.height /\ msg.endHeight = f.endHeight
    THEN Ret(TRUE, [ps EXCEPT !.captured[f.id].returnNull = TRUE])
    ELSE IF /\ msg.type = "respond_header_blocks"
            /\ msg.height = f.height /\ msg.endHeight = f.endHeight
    THEN Ret(TRUE, [ps EXCEPT !.captured[f.id].respPckt = msg])
    ELSE Ret(FALSE, ps)

\* the call of filter.consumeMessage(msg)
ConsumeMessage(f, msg, ps) ==
    CASE f.consumeMessage = "peakWatcher" -> peakWatcherConsume(f, msg, ps)
      [] f.consumeMessage = "getBalance" -> getBalanceConsume(f, msg, ps)
      [] f.consumeMessage = "subscribeToPuzzleHashUpdates" ->
            subscribeToPuzzleHashUpdatesConsume(f, msg, ps)
      [] f.consumeMessage = "subscribeToCoinUpdates" ->
            subscribeToCoinUpdatesConsume(f, msg, ps)
      [] f.consumeMessage = "getPuzzleSolution" ->
            getPuzzleSolutionConsume(f, msg, ps)
      [] f.consumeMessage = "getCoinChildren" ->
            getCoinChildrenConsume(f, msg, ps)
      [] f.consumeMessage = "getBlockHeader" ->
            getBlockHeaderConsume(f, msg, ps)
      [] f.consumeMessage = "getBlocksHeaders" ->
            getBlocksHeadersConsume(f, msg, ps)
      [] f.consumeMessage = "getCoinRemovals" ->
            getCoinRemovalsConsume(f, msg, ps)
      [] f.consumeMessage = "getCoinAdditions" ->
            getCoinAdditionsConsume(f, msg, ps)

\* ------------------------------------------------------- MessageManager
\* (spec.md 4.2; the file message_manager.ts is not among the sources)

InstalledIn(registry, id) == \E i \in 1..Len(registry) : registry[i].id = id
Installed(id) == InstalledIn(filters, id)

RemoveAt(seq, i) == SubSeq(seq, 1, i - 1) \o SubSeq(seq, i + 1, Len(seq))

\* MessageManager.initialize: opens the channel
initialize ==
    /\ chan' = "open"

\* MessageManager.registerFilter while the channel is open: the filter joins
\* the registry at the end, messageToSend (if any) is transmitted once, and
\* a one-shot filter gets a pending completion
registerFilter(f, messageToSend) ==
    /\ filters' = Append(filters, f)
    /\ sent' = IF messageToSend = NoOut THEN sent ELSE Append(sent, messageToSend)
    /\ completion' =
          [completion EXCEPT ![f.id] =
              IF f.deleteAfterFirstMessageConsumed THEN "pending" ELSE "none"]

\* Dispatch step 2: walk the snapshot in insertion order, call each
\* consumeMessage, stop at the first that returns true.
\* [consumer |-> index in the snapshot or 0, ps |-> what the closures left]
\* A closure that fails to decode the frame ends the walk: the error is
\* logged and the frame is dropped (spec.md section 7, DecodeError).
RECURSIVE Walk(_, _, _, _)
Walk(snapshot, i, msg, ps) ==
    IF i > Len(snapshot)
    THEN [consumer |-> 0, ps |-> ps, threw |-> FALSE]
    ELSE LET r == ConsumeMessage(snapshot[i], msg, ps)
         IN  IF r.threw
             THEN [consumer |-> 0, ps |-> r.ps, threw |-> TRUE]
             ELSE IF r.ret
             THEN [consumer |-> i, ps |-> r.ps, threw |-> FALSE]
             ELSE Walk(snapshot, i + 1, msg, r.ps)

Dispatch(msg) ==
    Walk(filters, 1, msg,
         [blockNumber |-> blockNumber, captured |-> captured,
          cbLog |-> cbLog, frame |-> frameNo + 1])

\* Timeout scheduler: a filter with expectedMaxRensponseWait > 0 may reach
\* its deadline once no filter registered before it has a deadline that
\* cannot be later (registered earlier with a wait that is not longer).
Due(i) ==
    /\ filters[i].expectedMaxRensponseWait > 0
    /\ \A j \in 1..(i - 1) :
          \/ filters[j].expectedMaxRensponseWait = 0
          \/ filters[j].expectedMaxRensponseWait
                > filters[i].expectedMaxRensponseWait

\* MessageManager.close: closes the channel, fails every outstanding
\* completion with Cancelled, clears the registry
managerClose ==
    /\ chan' = "closed"
    /\ completion' =
          [i \in Ids |-> IF completion[i] = "pending" THEN "Cancelled"
                                                     ELSE completion[i]]
    /\ filters' = << >>

\* --------------------------------------------------- provider: after await
RECURSIVE SumAmounts(_)
SumAmounts(coinStates) ==
    IF coinStates = << >> THEN 0
    ELSE Head(coinStates).coin.amount + SumAmounts(Tail(coinStates))

Result(tag, n, items) == [tag |-> tag, n |-> n, items |-> items]

\* spent coins counted too
getBalanceReturn_countsSpent(f, c) ==
    Result("value", SumAmounts(c.coinStates), << >>)

\* getBalance, lines 119-129
getBalanceReturn(f, c) ==
    Result("value",
           SumAmounts(SelectSeq(c.coinStates, LAMBDA cs : cs.spentHeight = Null)),
           << >>)

\* getPuzzleSolution, lines 250-254
getPuzzleSolutionReturn(f, c) ==
    IF c.returnNull THEN Result("null", Null, << >>)
    ELSE Result("value", c.respPckt.height, << >>)

\* null for an empty response
getCoinChildrenReturn_nullOnEmpty(f, c) ==
    IF c.respPckt.coinStates = << >> THEN Result("null", Null, << >>)
    ELSE Result("list", Null, c.respPckt.coinStates)

\* getCoinChildren, lines 287-297
getCoinChildrenReturn(f, c) == Result("list", Null, c.respPckt.coinStates)

\* getBlockHeader, lines 343-348
getBlockHeaderReturn(f, c) ==
    IF c.returnNull THEN Result("null", Null, << >>)
    ELSE Result("value", f.height, << >>)

\* getBlocksHeaders, lines 396-411
getBlocksHeadersReturn(f, c) ==
    IF c.returnNull THEN Result("null", Null, << >>)
    ELSE Result("list", c.respPckt.height, << >>)

\* getCoinRemovals, lines 475-489, and getCoinAdditions, lines 553-569
getCoinsReturn(f, c) ==
    IF c.returnNull THEN Result("null", Null, << >>)
    ELSE Result("list", Null, << >>)

\* what the awaiting provider method returns once its filter consumed a frame
Return(f, c) ==
    CASE f.consumeMessage = "getBalance" -> getBalanceReturn(f, c)
      [] f.consumeMessage = "getPuzzleSolution" -> getPuzzleSolutionReturn(f, c)
      [] f.consumeMessage = "getCoinChildren" -> getCoinChildrenReturn(f, c)
      [] f.consumeMessage = "getBlockHeader" -> getBlockHeaderReturn(f, c)
      [] f.consumeMessage = "getBlocksHeaders" -> getBlocksHeadersReturn(f, c)
      [] f.consumeMessage \in {"getCoinRemovals", "getCoinAdditions"} ->
            getCoinsReturn(f, c)
      [] OTHER -> NoResult

\* the consumer completed but left in the registry
Deliver_keepsConsumer(msg) ==
    LET d == Dispatch(msg)
        i == d.consumer
    IN  IF i # 0 /\ filters[i].deleteAfterFirstMessageConsumed
        THEN [filters |-> filters,
              completion |-> [completion EXCEPT ![filters[i].id] = "success"],
              result |-> [result EXCEPT ![filters[i].id] =
                            Return(filters[i], d.ps.captured[filters[i].id])],
              captured |-> d.ps.captured,
              cbLog |-> d.ps.cbLog,
              blockNumber |-> d.ps.blockNumber]
        ELSE [filters |-> filters,
              completion |-> completion,
              result |-> result,
              captured |-> d.ps.captured,
              cbLog |-> d.ps.cbLog,
              blockNumber |-> d.ps.blockNumber]

\* ------------------------------------------------ inbound frames and time
\* What the dispatch of one frame leaves behind.  When the consumer is a
\* one-shot filter it leaves the registry, its completion is fulfilled, the
\* awaiting method returns and the closure's variables die with it.
Deliver(msg) ==
    LET d == Dispatch(msg)
        i == d.consumer
    IN  IF i # 0 /\ filters[i].deleteAfterFirstMessageConsumed
        THEN [filters |-> RemoveAt(filters, i),
              completion |-> [completion EXCEPT ![filters[i].id] = "success"],
              result |-> [result EXCEPT ![filters[i].id] =
                            Return(filters[i], d.ps.captured[filters[i].id])],
              captured |-> [d.ps.captured EXCEPT ![filters[i].id] = NoCapture],
              cbLog |-> d.ps.cbLog,
              blockNumber |-> d.ps.blockNumber]
        ELSE [filters |-> filters,
              completion |-> completion,
              result |-> result,
              captured |-> d.ps.captured,
              cbLog |-> d.ps.cbLog,
              blockNumber |-> d.ps.blockNumber]

\* MessageManager's inbound sink: one frame, dispatched whole
OnMessage(msg) ==
    /\ chan = "open"
    /\ frameNo < MaxFrames
    /\ frameNo' = frameNo + 1
    /\ \E n \in {Deliver(msg)} :
          /\ filters' = n.filters
          /\ completion' = n.completion
          /\ result' = n.result
          /\ captured' = n.captured
          /\ cbLog' = n.cbLog
          /\ blockNumber' = n.blockNumber
    /\ dropped' = IF Dispatch(msg).threw THEN dropped + 1 ELSE dropped
    /\ UNCHANGED <<chan, sent, nextId, timeoutsFired, last>>

\* the filter dropped without its completion being failed
Timeout_silent(i) ==
    /\ chan = "open"
    /\ i \in 1..Len(filters)
    /\ Due(i)
    /\ filters' = RemoveAt(filters, i)
    /\ timeoutsFired' = [timeoutsFired EXCEPT ![filters[i].id] = @ + 1]
    /\ UNCHANGED <<chan, sent, completion, nextId, frameNo, dropped,
                   providerVars, last>>

\* The deadline of the filter at position i elapses
Timeout(i) ==
    /\ chan = "open"
    /\ i \in 1..Len(filters)
    /\ Due(i)
    /\ filters' = RemoveAt(filters, i)
    /\ completion' =
          [completion EXCEPT ![filters[i].id] =
              IF @ = "pending" THEN "Timeout" ELSE @]
    /\ timeoutsFired' = [timeoutsFired EXCEPT ![filters[i].id] = @ + 1]
    /\ UNCHANGED <<chan, sent, nextId, frameNo, dropped, providerVars, last>>

\* ---------------------------------------------------------- the provider
\* a provider method that touches neither the manager nor the provider state
Returns(op, ret, n) ==
    /\ last' = Last(op, ret, n)
    /\ UNCHANGED <<managerVars, providerVars, frameNo>>

\* `await this.messageManager.registerFilter(f)`: the method is suspended on
\* the completion; on a manager that is not open the call fails
Request(op, f, messageToSend) ==
    IF chan = "open"
    THEN /\ nextId < MaxCalls
         /\ registerFilter([f EXCEPT !.id = nextId + 1], messageToSend)
         /\ nextId' = nextId + 1
         /\ last' = Last(op, "pending", nextId + 1)
         /\ UNCHANGED <<chan, timeoutsFired, dropped, providerVars, frameNo>>
    ELSE Returns(op, "NotConnected", 0)

\* `this.messageManager.registerFilter(f)` with the promise dropped: the
\* method returns at once.  On a manager that is not open the failure
\* reaches the caller only if registerFilter throws before it suspends.
Subscribe(op, f, messageToSend) ==
    IF chan = "open"
    THEN /\ nextId < MaxCalls
         /\ registerFilter([f EXCEPT !.id = nextId + 1], messageToSend)
         /\ nextId' = nextId + 1
         /\ last' = Last(op, "void", nextId + 1)
         /\ UNCHANGED <<chan, timeoutsFired, dropped, providerVars, frameNo>>
    ELSE \E ret \in {"NotConnected", "void"} : Returns(op, ret, 0)

peakWatcher ==
    [Filter("peakWatcher", "", Null, Null, FALSE, PeakWatcherWait)
        EXCEPT !.id = 0]

\* one connection per provider object: connect is called once
connect ==
    /\ chan = "new"
    /\ initialize
    /\ registerFilter(peakWatcher, NoOut)
    /\ last' = Last("connect", "void", 0)
    /\ UNCHANGED <<nextId, timeoutsFired, dropped, providerVars, frameNo>>

\* the channel closed without MessageManager.close being awaited
close_channelOnly ==
    /\ chan' = "closed"
    /\ last' = Last("close", "void", 0)
    /\ UNCHANGED <<filters, completion, sent, nextId, timeoutsFired, dropped,
                   providerVars, frameNo>>

close ==
    /\ managerClose
    /\ last' = Last("close", "void", 0)
    /\ UNCHANGED <<sent, nextId, timeoutsFired, dropped, providerVars,
                   frameNo>>

\* `this.blockNumber || 0`: no peak reported as height 0
getBlockNumber_zeroForNull ==
    Returns("getBlockNumber", "value",
            IF blockNumber = Null THEN 0 ELSE blockNumber)

getBlockNumber == Returns("getBlockNumber", "value", blockNumber)

RegisterForPhUpdates(puzHash) ==
    Out("register_interest_in_puzzle_hash", <<puzHash>>, "", 0, Null)

getBalance(address, puzzleHash) ==
    IF address # UndefinedAddress /\ StartsWith(address, ADDRESS_PREFIX)
    THEN IF addressToPuzzleHash(address) = ""
         THEN Returns("getBalance", "null", 0)
         ELSE Request("getBalance",
                      Filter("getBalance", addressToPuzzleHash(address), Null,
                             Null, DefaultDeleteAfterFirst,
                             DefaultMaxResponseWait),
                      RegisterForPhUpdates(addressToPuzzleHash(address)))
    ELSE IF puzzleHash # Undefined
    THEN Request("getBalance",
                 Filter("getBalance", validateHashString(puzzleHash), Null,
                        Null, DefaultDeleteAfterFirst, DefaultMaxResponseWait),
                 RegisterForPhUpdates(validateHashString(puzzleHash)))
    ELSE Returns("getBalance", "null", 0)

subscribeToPuzzleHashUpdates(puzzleHash) ==
    IF validateHashString(puzzleHash) = ""
    THEN Returns("subscribeToPuzzleHashUpdates", "void", 0)
    ELSE Subscribe("subscribeToPuzzleHashUpdates",
                   Filter("subscribeToPuzzleHashUpdates",
                          validateHashString(puzzleHash), Null, Null, FALSE, 0),
                   RegisterForPhUpdates(validateHashString(puzzleHash)))

subscribeToCoinUpdates(coinId) ==
    IF validateHashString(coinId) = ""
    THEN Returns("subscribeToCoinUpdates", "void", 0)
    ELSE Subscribe("subscribeToCoinUpdates",
                   Filter("subscribeToCoinUpdates", validateHashString(coinId),
                          Null, Null, FALSE, 0),
                   Out("register_interest_in_coin",
                       <<validateHashString(coinId)>>, "", 0, Null))

getPuzzleSolution(coinId, height) ==
    IF validateHashString(coinId) = ""
    THEN Returns("getPuzzleSolution", "null", 0)
    ELSE Request("getPuzzleSolution",
                 Filter("getPuzzleSolution", validateHashString(coinId), height,
                        Null, DefaultDeleteAfterFirst, DefaultMaxResponseWait),
                 Out("request_puzzle_solution", << >>,
                     validateHashString(coinId), height, Null))

getCoinChildren(coinId) ==
    IF validateHashString(coinId) = ""
    THEN Returns("getCoinChildren", "empty", 0)
    ELSE Request("getCoinChildren",
                 Filter("getCoinChildren", validateHashString(coinId), Null,
                        Null, DefaultDeleteAfterFirst, DefaultMaxResponseWait),
                 Out("request_children", << >>, validateHashString(coinId),
                     Null, Null))

\* the request registered with expectedMaxRensponseWait: 0
getBlockHeader_noDeadline(height) ==
    Request("getBlockHeader",
            Filter("getBlockHeader", "", height, Null,
                   DefaultDeleteAfterFirst, 0),
            Out("request_block_header", << >>, "", height, Null))

getBlockHeader(height) ==
    Request("getBlockHeader",
            Filter("getBlockHeader", "", height, Null,
                   DefaultDeleteAfterFirst, DefaultMaxResponseWait),
            Out("request_block_header", << >>, "", height, Null))

getBlocksHeaders(startHeight, endHeight) ==
    Request("getBlocksHeaders",
            Filter("getBlocksHeaders", "", startHeight, endHeight,
                   DefaultDeleteAfterFirst, DefaultMaxResponseWait),
            Out("request_header_blocks", << >>, "", startHeight, endHeight))

\* the optional list of coin ids / puzzle hashes
UndefinedList == <<Undefined>>
NullList == <<"null">>
HashListInputs == {UndefinedList, <<"h1">>, <<"h1", "zz">>}

\* the loops of lines 424-429 and 502-507
AnyInvalid(list) == \E i \in 1..Len(list) : validateHashString(list[i]) = ""
Parsed(list) == [i \in 1..Len(list) |-> validateHashString(list[i])]

\* the loop over coinIds parsing without the length check of line 427
getCoinRemovals_headerOnly(height, headerHash, coinIds) ==
    IF validateHashString(headerHash) = ""
    THEN Returns("getCoinRemovals", "null", 0)
    ELSE Request("getCoinRemovals",
                 Filter("getCoinRemovals", validateHashString(headerHash),
                        height, Null, DefaultDeleteAfterFirst,
                        DefaultMaxResponseWait),
                 Out("request_removals",
                     IF coinIds # UndefinedList THEN Parsed(coinIds)
                                                ELSE NullList,
                     validateHashString(headerHash), height, Null))

getCoinRemovals(height, headerHash, coinIds) ==
    IF validateHashString(headerHash) = ""
    THEN Returns("getCoinRemovals", "null", 0)
    ELSE IF coinIds # UndefinedList /\ AnyInvalid(coinIds)
    THEN Returns("getCoinRemovals", "null", 0)
    ELSE Request("getCoinRemovals",
                 Filter("getCoinRemovals", validateHashString(headerHash),
                        height, Null, DefaultDeleteAfterFirst,
                        DefaultMaxResponseWait),
                 Out("request_removals",
                     IF coinIds # UndefinedList THEN Parsed(coinIds)
                                                ELSE NullList,
                     validateHashString(headerHash), height, Null))

getCoinAdditions(height, headerHash, puzzleHashes) ==
    IF validateHashString(headerHash) = ""
    THEN Returns("getCoinAdditions", "null", 0)
    ELSE IF puzzleHashes # UndefinedList /\ AnyInvalid(puzzleHashes)
    THEN Returns("getCoinAdditions", "null", 0)
    ELSE Request("getCoinAdditions",
                 Filter("getCoinAdditions", validateHashString(headerHash),
                        height, Null, DefaultDeleteAfterFirst,
                        DefaultMaxResponseWait),
                 Out("request_additions",
                     IF puzzleHashes # UndefinedList THEN Parsed(puzzleHashes)
                                                     ELSE NullList,
                     validateHashString(headerHash), height, Null))

\* throw new Error("LeafletProvider does not implement this method.")
getAddress == Returns("getAddress", "UnsupportedOperation", 0)
transfer == Returns("transfer", "UnsupportedOperation", 0)
transferCAT == Returns("transferCAT", "UnsupportedOperation", 0)
acceptOffer == Returns("acceptOffer", "UnsupportedOperation", 0)
\* the method returning instead of throwing
subscribeToAddressChanges_returns ==
    Returns("subscribeToAddressChanges", "void", 0)

subscribeToAddressChanges ==
    Returns("subscribeToAddressChanges", "UnsupportedOperation", 0)

\* ------------------------------------------------------- specification
\* every provider method, with every input
Calls ==
    \/ getBlockNumber
    \/ \E a \in AddressInputs, ph \in HashInputs \cup {Undefined} :
          getBalance(a, ph)
    \/ \E ph \in HashInputs : subscribeToPuzzleHashUpdates(ph)
    \/ \E c \in HashInputs : subscribeToCoinUpdates(c)
    \/ \E c \in HashInputs, h \in RequestHeights : getPuzzleSolution(c, h)
    \/ \E c \in HashInputs : getCoinChildren(c)
    \/ \E h \in RequestHeights : getBlockHeader(h)
    \/ \E h \in RequestHeights : getBlocksHeaders(h, h + 1)
    \/ \E h \in RequestHeights, hh \in HeaderHashInputs, l \in HashListInputs :
          getCoinRemovals(h, hh, l)
    \/ \E h \in RequestHeights, hh \in HeaderHashInputs, l \in HashListInputs :
          getCoinAdditions(h, hh, l)
    \/ getAddress
    \/ transfer
    \/ transferCAT
    \/ acceptOffer
    \/ subscribeToAddressChanges

\* The whole provider.
Next ==
    \/ connect
    \/ close
    \/ Calls
    \/ \E msg \in Frames : OnMessage(msg)
    \/ \E i \in 1..Len(filters) : Timeout(i)

Spec == Init /\ [][Next]_vars

\* The state space of Spec grows with (inputs * outcomes) ^ MaxCalls.  The
\* properties are checked under three workloads, each a part of Next that
\* is explored exhaustively.

\* Dispatch: every method that registers a filter, called with valid
\* arguments on one connection, and up to DispatchMaxFrames inbound frames.
NextDispatch ==
    \/ connect
    \/ getBalance(UndefinedAddress, "h1")
    \/ \E ph \in ValidHashes : subscribeToPuzzleHashUpdates(ph)
    \/ subscribeToCoinUpdates("h1")
    \/ \E h \in RequestHeights : getPuzzleSolution("h1", h)
    \/ \E c \in ValidHashes : getCoinChildren(c)
    \/ \E h \in RequestHeights : getBlockHeader(h)
    \/ \E h \in RequestHeights : getBlocksHeaders(h, h + 1)
    \/ \E h \in RequestHeights : getCoinRemovals(h, "h1", UndefinedList)
    \/ \E h \in RequestHeights : getCoinAdditions(h, "h1", UndefinedList)
    \/ \E msg \in Frames : OnMessage(msg) /\ frameNo' <= DispatchMaxFrames

SpecDispatch == Init /\ [][NextDispatch]_vars

\* Lifecycle: connect, close and the timeout scheduler around a one-shot
\* request, a subscription to the same puzzle hash, a request of another
\* message family, and every inbound frame.
NextLife ==
    \/ connect
    \/ close
    \/ getBalance(UndefinedAddress, "h1")
    \/ subscribeToPuzzleHashUpdates("h1")
    \/ \E h \in RequestHeights : getBlockHeader(h)
    \/ \E msg \in Frames : OnMessage(msg)
    \/ \E i \in 1..Len(filters) : Timeout(i)

SpecLife == Init /\ [][NextLife]_vars

\* The lifecycle workload with the timeout scheduler's timers: a timer
\* that was armed fires unless its filter has left the registry.
SpecLifeFair ==
    SpecLife /\ WF_vars(\E i \in 1..Len(filters) : Timeout(i))

\* The methods' argument checks and failures: every method with every
\* input, before connect, while connected and after close, with at most
\* ApiMaxCalls registered filters and the peak frames.
PeakFrames == {msg \in Frames : msg.type = "new_peak_wallet"}

NextApi ==
    \/ connect
    \/ close
    \/ getBlockNumber
    \/ \E a \in AddressInputs, ph \in HashInputs \cup {Undefined} :
          getBalance(a, ph) /\ nextId' <= ApiMaxCalls
    \/ \E ph \in HashInputs :
          subscribeToPuzzleHashUpdates(ph) /\ nextId' <= ApiMaxCalls
    \/ \E c \in HashInputs :
          subscribeToCoinUpdates(c) /\ nextId' <= ApiMaxCalls
    \/ \E c \in HashInputs, h \in RequestHeights :
          getPuzzleSolution(c, h) /\ nextId' <= ApiMaxCalls
    \/ \E c \in HashInputs : getCoinChildren(c) /\ nextId' <= ApiMaxCalls
    \/ \E h \in RequestHeights :
          getBlockHeader(h) /\ nextId' <= ApiMaxCalls
    \/ \E h \in RequestHeights :
          getBlocksHeaders(h, h + 1) /\ nextId' <= ApiMaxCalls
    \/ \E h \in RequestHeights, hh \in HeaderHashInputs, l \in HashListInputs :
          getCoinRemovals(h, hh, l) /\ nextId' <= ApiMaxCalls
    \/ \E h \in RequestHeights, hh \in HeaderHashInputs, l \in HashListInputs :
          getCoinAdditions(h, hh, l) /\ nextId' <= ApiMaxCalls
    \/ getAddress
    \/ transfer
    \/ transferCAT
    \/ acceptOffer
    \/ subscribeToAddressChanges
    \/ \E msg \in PeakFrames : OnMessage(msg)

SpecApi == Init /\ [][NextApi]_vars

\* Subscriptions: both kinds of subscription for every key next to a
\* one-shot request for the same puzzle hash, with close, the timeout
\* scheduler, and the update and peak frames.
SubscriptionFrames ==
    {msg \in Frames :
        msg.type \in {"respond_to_ph_update", "respond_to_coin_update",
                      "new_peak_wallet"}}

NextSubs ==
    \/ connect
    \/ close
    \/ getBalance(UndefinedAddress, "h1")
    \/ \E ph \in ValidHashes : subscribeToPuzzleHashUpdates(ph)
    \/ \E c \in ValidHashes : subscribeToCoinUpdates(c)
    \/ \E msg \in SubscriptionFrames : OnMessage(msg)
    \/ \E i \in 1..Len(filters) : Timeout(i)

SpecSubs == Init /\ [][NextSubs]_vars

\* Balances: getBalance by address and by puzzle hash, answered by
\* respond_to_ph_update frames that carry every list of up to two coin
\* states, and two of three, over unspent and spent coins of two puzzle
\* hashes.
csD == CoinState(Coin("h1", "h1", 250), Null)
BalanceCoinStates == {csA, csB, csC, csD}
BalanceLists ==
    {<< >>} \cup {<<a>> : a \in BalanceCoinStates}
    \cup {<<a, b>> : a, b \in BalanceCoinStates}
    \cup {<<csA, csD, csC>>, <<csB, csD, csC>>}
BalanceFrames ==
    {Msg("respond_to_ph_update", hs, "", Null, Null, cs) :
        hs \in HashLists, cs \in BalanceLists}

NextBalance ==
    \/ connect
    \/ getBalance(AddrH1, Undefined)
    \/ \E ph \in ValidHashes : getBalance(UndefinedAddress, ph)
    \/ \E msg \in BalanceFrames : OnMessage(msg)

SpecBalance == Init /\ [][NextBalance]_vars

\* Decode errors: the peak watcher next to a one-shot request and a
\* subscription, with the timeout scheduler, a new_peak_wallet frame that
\* cannot be decoded, and the frames that can.
BadPeakFrame == Msg("new_peak_wallet", << >>, "", Undecodable, Null, << >>)

DecodeFrames ==
    PeakFrames
    \cup {BadPeakFrame}
    \cup {msg \in Frames :
            msg.type = "respond_to_ph_update" /\ msg.hashes = <<"h1">>}

NextDecode ==
    \/ connect
    \/ getBalance(UndefinedAddress, "h1")
    \/ subscribeToPuzzleHashUpdates("h1")
    \/ \E msg \in DecodeFrames : OnMessage(msg)
    \/ \E i \in 1..Len(filters) : Timeout(i)

SpecDecode == Init /\ [][NextDecode]_vars

\* ------------------------------------------------------------ properties
\* what a closure called on its own, in the current state, would answer
Accepts(f, msg) ==
    ConsumeMessage(f, msg,
        [blockNumber |-> blockNumber, captured |-> captured,
         cbLog |-> cbLog, frame |-> frameNo + 1]).ret

FirstAccepting(msg) ==
    IF \E i \in 1..Len(filters) : Accepts(filters[i], msg)
    THEN CHOOSE i \in 1..Len(filters) :
            /\ Accepts(filters[i], msg)
            /\ \A j \in 1..(i - 1) : ~Accepts(filters[j], msg)
    ELSE 0

\* the dispatch that left n did not touch filter f
Untouched(f, n) ==
    /\ InstalledIn(n.filters, f.id)
    /\ n.completion[f.id] = completion[f.id]
    /\ n.result[f.id] = result[f.id]
    /\ n.cbLog[f.id] = cbLog[f.id]
    /\ n.captured[f.id] = captured[f.id]

\* in the dispatch that left n the frame was consumed by filter f
ConsumedBy(f, n) ==
    IF f.deleteAfterFirstMessageConsumed
    THEN /\ ~InstalledIn(n.filters, f.id)
         /\ completion[f.id] = "pending"
         /\ n.completion[f.id] = "success"
    ELSE /\ InstalledIn(n.filters, f.id)
         /\ \/ f.consumeMessage = "peakWatcher"
            \/ Len(n.cbLog[f.id]) = Len(cbLog[f.id]) + 1

\* two subscriptions to one puzzle hash, the earlier before the later
SamePuzzleHashSubscribers(i, j) ==
    /\ i < j
    /\ filters[i].consumeMessage = "subscribeToPuzzleHashUpdates"
    /\ filters[j].consumeMessage = "subscribeToPuzzleHashUpdates"
    /\ filters[i].hash = filters[j].hash

\* C1: whatever frame arrives next, it is consumed by at most one installed
\* filter, the first in insertion order whose consumeMessage accepts it;
\* every other installed filter keeps its place in the registry, its
\* completion, its result and its callback log.
C1_AtMostOneConsumer ==
    chan = "open" =>
        \A msg \in Frames :
            \A n \in {Deliver(msg)}, c \in {FirstAccepting(msg)} :
                /\ Len(n.filters) >= Len(filters) - 1
                /\ \A i \in 1..Len(filters) :
                      IF i = c
                      THEN ConsumedBy(filters[i], n)
                      ELSE Untouched(filters[i], n)

\* two subscriptions to the same puzzle hash are installed, a frame for it
\* reached the first and the second saw nothing
C1_Witness ==
    \E i, j \in 1..Len(filters) :
        /\ SamePuzzleHashSubscribers(i, j)
        /\ cbLog[filters[i].id] # << >>
        /\ cbLog[filters[j].id] = << >>

\* C2: every step that leaves the manager closed (close itself and every
\* step after it) leaves the registry empty and no completion pending; a
\* completion that was pending is Cancelled, and any other completion is
\* what it was, so nothing succeeds or times out after close.
C2_CloseCancelsPending ==
    [][chan' = "closed" =>
          /\ filters' = << >>
          /\ \A i \in Ids :
                /\ completion'[i] # "pending"
                /\ completion[i] = "pending" => completion'[i] = "Cancelled"
                /\ completion[i] # "pending" => completion'[i] = completion[i]
      ]_vars

\* closed with a one-shot request cancelled and a subscription registered
C2_Witness ==
    /\ chan = "closed"
    /\ last.op = "close"
    /\ \E i, j \in 1..nextId :
          /\ completion[i] = "Cancelled"
          /\ completion[j] = "none"

\* C3: the deadline of a request fires at most once; the step on which it
\* fires removes the filter and fails the pending completion with Timeout;
\* from then on the completion stays Timeout, the request gets no result,
\* its filter is never installed again, and a frame that no installed
\* filter accepts changes nothing.
C3_TimeoutOnceThenDiscard ==
    [][\A i \in 1..MaxCalls :
          /\ timeoutsFired'[i] <= 1
          /\ (completion[i] = "pending" /\ timeoutsFired'[i] # timeoutsFired[i])
                => (completion'[i] = "Timeout" /\ ~InstalledIn(filters', i))
          /\ completion[i] = "Timeout" =>
                /\ completion'[i] = "Timeout"
                /\ result'[i] = result[i]
                /\ captured'[i] = captured[i]
                /\ ~InstalledIn(filters', i)
                /\ \A msg \in Frames :
                      FirstAccepting(msg) = 0 =>
                          \A n \in {Deliver(msg)} :
                              /\ n.filters = filters
                              /\ n.completion = completion
                              /\ n.result = result
                              /\ n.cbLog = cbLog
                              /\ n.blockNumber = blockNumber
      ]_vars

\* getBalance (call 1) timed out, and the frame for its puzzle hash that
\* came afterwards went to the subscription registered after it (call 2)
C3_Witness ==
    /\ completion[1] = "Timeout"
    /\ timeoutsFired[1] = 1
    /\ sent[1].type = "register_interest_in_puzzle_hash"
    /\ result[1] = NoResult
    /\ cbLog[2] # << >>

\* C4 (as the specification states it): with two subscriptions to the same
\* puzzle hash installed, every respond_to_ph_update frame that carries the
\* hash invokes both callbacks.
C4_BothSubscribersNotified ==
    \A i, j \in 1..Len(filters) :
        SamePuzzleHashSubscribers(i, j) =>
            \A msg \in Frames :
                (/\ msg.type = "respond_to_ph_update"
                 /\ Includes(msg.hashes, filters[i].hash)) =>
                    \A n \in {Deliver(msg)} :
                        /\ Len(n.cbLog[filters[i].id])
                              = Len(cbLog[filters[i].id]) + 1
                        /\ Len(n.cbLog[filters[j].id])
                              = Len(cbLog[filters[j].id]) + 1

\* C5 (as the specification states it): while the connection is open the
\* peak watcher is installed and every new_peak_wallet frame updates the
\* cached peak.
C5_PeakWatcherPermanent ==
    chan = "open" =>
        /\ Installed(0)
        /\ \A msg \in PeakFrames : Deliver(msg).blockNumber = msg.height

\* C6 (as the specification states it): once set, the cached peak never
\* decreases.
C6_PeakMonotone ==
    [][blockNumber # Null => blockNumber' >= blockNumber]_vars

\* C6 (amended): once set, the cached peak is never null again; the peak
\* watcher's closure stores the height of every new_peak_wallet frame it
\* is given, whether higher or lower than the cached one; and the cached
\* peak changes only on a step that dispatches such a frame to the
\* installed peak watcher, to that frame's height.
C6_PeakFollowsLatestFrame ==
    [][/\ blockNumber # Null => blockNumber' # Null
       /\ \A msg \in PeakFrames :
             /\ peakWatcherConsume(peakWatcher, msg,
                    [blockNumber |-> blockNumber, captured |-> captured,
                     cbLog |-> cbLog, frame |-> frameNo + 1]).ps.blockNumber
                  = msg.height
             /\ (OnMessage(msg) /\ Installed(0)) => blockNumber' = msg.height
       /\ blockNumber' # blockNumber =>
             /\ Installed(0)
             /\ \E msg \in PeakFrames : OnMessage(msg)
      ]_vars

\* two frames were dispatched and the cached peak is the lower height
C6_Witness ==
    /\ chan = "open"
    /\ Installed(0)
    /\ frameNo = 2
    /\ blockNumber = 1

\* the operations C7 lists
ConnectedOps ==
    {"getBlockNumber", "getBalance", "getPuzzleSolution", "getCoinChildren",
     "getBlockHeader", "getBlocksHeaders", "getCoinRemovals",
     "getCoinAdditions", "subscribeToPuzzleHashUpdates",
     "subscribeToCoinUpdates"}

\* C7 (as the specification states it): a provider operation called before
\* connect or after close fails with NotConnected.
C7_NotConnectedOutsideConnection ==
    (chan # "open" /\ last.op \in ConnectedOps) => last.ret = "NotConnected"

\* neither argument of getBalance yields a valid puzzle hash
NeitherValid(address, puzzleHash) ==
    /\ \/ address = UndefinedAddress
       \/ ~StartsWith(address, ADDRESS_PREFIX)
       \/ addressToPuzzleHash(address) = ""
    /\ \/ puzzleHash = Undefined
       \/ validateHashString(puzzleHash) = ""

\* C8 (as the specification states it): on an open connection, getBalance
\* with no valid puzzle hash in either argument returns null, sends no
\* frame and registers no filter.
C8_GetBalanceNullOnInvalid ==
    [][\A a \in AddressInputs, ph \in HashInputs \cup {Undefined} :
          (chan = "open" /\ NeitherValid(a, ph) /\ getBalance(a, ph)) =>
              /\ last'.ret = "null"
              /\ UNCHANGED <<filters, sent>>
      ]_vars

\* headerHash or an element of the optional list fails hex validation
InvalidCoinArgs(headerHash, list) ==
    \/ validateHashString(headerHash) = ""
    \/ list # UndefinedList /\ AnyInvalid(list)

\* C9: in every state, getCoinRemovals and getCoinAdditions called with a
\* headerHash or a list element that fails hex validation return null and
\* leave the registry, the frames sent, the completions and the channel
\* unchanged.
C9_InvalidHexReturnsNull ==
    [][\A h \in RequestHeights, hh \in HeaderHashInputs, l \in HashListInputs :
          (/\ InvalidCoinArgs(hh, l)
           /\ getCoinRemovals(h, hh, l) \/ getCoinAdditions(h, hh, l)) =>
              /\ last'.ret = "null"
              /\ last'.op \in {"getCoinRemovals", "getCoinAdditions"}
              /\ UNCHANGED <<filters, sent, completion, chan>>
      ]_vars

\* getCoinRemovals returned null on an open connection that has a request
\* in flight
C9_Witness ==
    /\ chan = "open"
    /\ last = Last("getCoinRemovals", "null", 0)
    /\ Len(filters) = 2
    /\ Len(sent) = 1

UnsupportedOps ==
    {"getAddress", "transfer", "transferCAT", "acceptOffer",
     "subscribeToAddressChanges"}

\* C10: a call of getAddress, transfer, transferCAT, acceptOffer or
\* subscribeToAddressChanges fails with UnsupportedOperation and leaves
\* the registry, the frames sent, the completions, the channel and the
\* cached peak unchanged, whatever the state of the connection.
C10_UnsupportedOperation ==
    [][(last' # last /\ last'.op \in UnsupportedOps) =>
          /\ last'.ret = "UnsupportedOperation"
          /\ UNCHANGED <<managerVars, providerVars>>
      ]_vars

\* subscribeToAddressChanges failed on an open connection with a request in
\* flight and a peak cached
C10_Witness ==
    /\ chan = "open"
    /\ last = Last("subscribeToAddressChanges", "UnsupportedOperation", 0)
    /\ Len(filters) = 2
    /\ blockNumber # Null

\* the frame answers the request or subscription of filter f: its type
\* belongs to the filter's message family and its key fields are the
\* filter's (spec.md, the predicate of each operation)
Matches(f, msg) ==
    CASE f.consumeMessage = "peakWatcher" -> msg.type = "new_peak_wallet"
      [] f.consumeMessage \in {"getBalance", "subscribeToPuzzleHashUpdates"} ->
            msg.type = "respond_to_ph_update" /\ Includes(msg.hashes, f.hash)
      [] f.consumeMessage = "subscribeToCoinUpdates" ->
            msg.type = "respond_to_coin_update" /\ Includes(msg.hashes, f.hash)
      [] f.consumeMessage = "getPuzzleSolution" ->
            /\ msg.type \in {"respond_puzzle_solution", "reject_puzzle_solution"}
            /\ msg.hash = f.hash /\ msg.height = f.height
      [] f.consumeMessage = "getCoinRemovals" ->
            /\ msg.type \in {"respond_removals", "reject_removals_request"}
            /\ msg.hash = f.hash /\ msg.height = f.height
      [] f.consumeMessage = "getCoinAdditions" ->
            /\ msg.type \in {"respond_additions", "reject_additions_request"}
            /\ msg.hash = f.hash /\ msg.height = f.height
      [] f.consumeMessage = "getCoinChildren" ->
            /\ msg.type = "respond_children"
            /\ \/ msg.coinStates = << >>
               \/ msg.coinStates[1].coin.parentCoinInfo = f.hash
      [] f.consumeMessage = "getBlockHeader" ->
            msg.type \in HeightTypes /\ msg.height = f.height
      [] f.consumeMessage = "getBlocksHeaders" ->
            /\ msg.type \in RangeTypes
            /\ msg.height = f.height /\ msg.endHeight = f.endHeight

\* no filter registered before position k is matched by the frame
FirstMatching(k, msg) == \A j \in 1..(k - 1) : ~Matches(filters[j], msg)

\* C11: whichever frame arrives next, it completes exactly the pending
\* request that it matches and that no earlier installed filter matches,
\* wherever that request stands in the registration order, and every
\* other pending request stays pending and installed; a pending request
\* ends only by such a frame, by its timeout or by close.
C11_CompletionInArrivalOrder ==
    /\ [](chan = "open" =>
            \A msg \in Frames :
                \A n \in {Deliver(msg)} :
                    \A k \in 1..Len(filters) :
                        completion[filters[k].id] = "pending" =>
                            IF Matches(filters[k], msg) /\ FirstMatching(k, msg)
                            THEN /\ n.completion[filters[k].id] = "success"
                                 /\ ~InstalledIn(n.filters, filters[k].id)
                            ELSE /\ n.completion[filters[k].id] = "pending"
                                 /\ InstalledIn(n.filters, filters[k].id))
    /\ [][\A i \in 1..MaxCalls :
             completion[i] = "pending" =>
                 /\ Installed(i)
                 /\ completion'[i] = "success" => frameNo' = frameNo + 1
                 /\ completion'[i] = "Timeout" =>
                       timeoutsFired'[i] = timeoutsFired[i] + 1
                 /\ completion'[i] = "Cancelled" => chan' = "closed"
                 /\ completion'[i] \in
                       {"pending", "success", "Timeout", "Cancelled"}
         ]_vars

\* the request registered second completed while the one registered first
\* is still pending and installed
C11_Witness ==
    /\ completion[1] = "pending"
    /\ Installed(1)
    /\ completion[2] = "success"
    /\ result[2] # NoResult

SubscriptionOps == {"subscribeToPuzzleHashUpdates", "subscribeToCoinUpdates"}

\* the coin states of a frame that concern the key of subscription f
Relevant(f, msg) ==
    IF f.consumeMessage = "subscribeToPuzzleHashUpdates"
    THEN SelectSeq(msg.coinStates, LAMBDA cs : cs.coin.puzzleHash = f.hash)
    ELSE SelectSeq(msg.coinStates, LAMBDA cs : getId(cs.coin) = f.hash)

\* C12: an installed subscription has no deadline and is not one-shot;
\* whichever frame arrives next the subscription stays installed, and its
\* callback is invoked once, with the frame's coin states for its key, when
\* the frame matches it and no older filter does, and not at all
\* otherwise; the callback log is in inbound-frame order; and a step
\* removes a subscription only by closing the manager.
C12_SubscriptionPersistent ==
    /\ [](chan = "open" =>
            \A k \in 1..Len(filters) :
                filters[k].consumeMessage \in SubscriptionOps =>
                    /\ ~filters[k].deleteAfterFirstMessageConsumed
                    /\ ~Due(k)
                    /\ ~ENABLED Timeout(k)
                    /\ \A a, b \in 1..Len(cbLog[filters[k].id]) :
                          a < b => cbLog[filters[k].id][a].frame
                                      < cbLog[filters[k].id][b].frame
                    /\ \A msg \in Frames :
                          \A n \in {Deliver(msg)} :
                              /\ InstalledIn(n.filters, filters[k].id)
                              /\ n.cbLog[filters[k].id] =
                                    IF /\ Matches(filters[k], msg)
                                       /\ FirstMatching(k, msg)
                                    THEN Append(cbLog[filters[k].id],
                                                [frame |-> frameNo + 1,
                                                 coins |->
                                                    Relevant(filters[k], msg)])
                                    ELSE cbLog[filters[k].id])
    /\ [][\A k \in 1..Len(filters) :
             filters[k].consumeMessage \in SubscriptionOps =>
                 \/ InstalledIn(filters', filters[k].id)
                 \/ chan' = "closed"
         ]_vars

\* a coin subscription got two frames, in order, after a request timed out
C12_Witness ==
    \E k \in 1..Len(filters) :
        /\ filters[k].consumeMessage = "subscribeToCoinUpdates"
        /\ Len(cbLog[filters[k].id]) = 2
        /\ cbLog[filters[k].id][1].coins = <<csA>>
        /\ \E i \in 1..MaxCalls : completion[i] = "Timeout"

\* the sum of amount over the coin states of the given puzzle hash that
\* have no spent height
RECURSIVE ExpectedBalance(_, _)
ExpectedBalance(puzHash, coinStates) ==
    IF coinStates = << >> THEN 0
    ELSE (IF /\ Head(coinStates).coin.puzzleHash = puzHash
             /\ Head(coinStates).spentHeight = Null
          THEN Head(coinStates).coin.amount ELSE 0)
         + ExpectedBalance(puzHash, Tail(coinStates))

\* C13: whichever respond_to_ph_update frame arrives next, the getBalance
\* call whose filter consumes it (the frame lists its puzzle hash and no
\* older filter matches) returns the sum of amount over the frame's coin
\* states of that puzzle hash with no spent height; a getBalance call the
\* frame does not reach returns nothing yet.
C13_BalanceIsUnspentSum ==
    chan = "open" =>
        \A msg \in BalanceFrames :
            \A n \in {Deliver(msg)} :
                \A k \in 1..Len(filters) :
                    filters[k].consumeMessage = "getBalance" =>
                        n.result[filters[k].id] =
                            IF Matches(filters[k], msg) /\ FirstMatching(k, msg)
                            THEN Result("value",
                                        ExpectedBalance(filters[k].hash,
                                                        msg.coinStates),
                                        << >>)
                            ELSE NoResult

\* one call got 350 for the puzzle hash with unspent coins of 100 and 250,
\* another got 7 for the other puzzle hash
C13_Witness ==
    /\ result[1] = Result("value", 350, << >>)
    /\ result[2] = Result("value", 7, << >>)
    /\ sent[1].hashes = <<"h1">>
    /\ sent[2].hashes = <<"h2">>

\* the requests answered by a respond_* or a reject_* frame
RejectableOps ==
    {"getPuzzleSolution", "getBlockHeader", "getBlocksHeaders",
     "getCoinRemovals", "getCoinAdditions"}
RejectTypes ==
    {"reject_puzzle_solution", "reject_header_request", "reject_header_blocks",
     "reject_removals_request", "reject_additions_request"}

\* what the request of filter f returns for the frame that answers it
ExpectedAnswer(f, msg) ==
    IF msg.type \in RejectTypes THEN Result("null", Null, << >>)
    ELSE CASE f.consumeMessage = "getPuzzleSolution" ->
                    Result("value", msg.height, << >>)
           [] f.consumeMessage = "getBlockHeader" ->
                    Result("value", f.height, << >>)
           [] f.consumeMessage = "getBlocksHeaders" ->
                    Result("list", msg.height, << >>)
           [] OTHER -> Result("list", Null, << >>)

\* C14: for an installed getPuzzleSolution, getBlockHeader,
\* getBlocksHeaders, getCoinRemovals or getCoinAdditions request and any
\* frame: the request's closure accepts the frame exactly when it is the
\* respond_* or reject_* frame of its family with the request's keys; and
\* when the frame reaches the request, the request completes with success,
\* returning null for a reject_* frame and the translated response for a
\* respond_* frame; otherwise the request stays pending.
C14_RejectCompletesWithNull ==
    chan = "open" =>
        \A msg \in Frames :
            \A n \in {Deliver(msg)} :
                \A k \in 1..Len(filters) :
                    filters[k].consumeMessage \in RejectableOps =>
                        /\ Accepts(filters[k], msg) <=> Matches(filters[k], msg)
                        /\ IF Matches(filters[k], msg) /\ FirstMatching(k, msg)
                           THEN /\ n.completion[filters[k].id] = "success"
                                /\ n.result[filters[k].id]
                                      = ExpectedAnswer(filters[k], msg)
                           ELSE /\ n.completion[filters[k].id] = "pending"
                                /\ n.result[filters[k].id] = NoResult

\* a getCoinRemovals call returned null on a reject frame while a
\* getBlocksHeaders call is still waiting
C14_Witness ==
    \E i, j \in 1..Len(sent) :
        /\ sent[i].type = "request_removals"
        /\ completion[i] = "success"
        /\ result[i] = Result("null", Null, << >>)
        /\ sent[j].type = "request_header_blocks"
        /\ completion[j] = "pending"

\* C15: the closure of an installed getCoinChildren request accepts a
\* frame exactly when it is a respond_children frame whose coin-state list
\* is empty or whose first entry has the requested coin as parent; when
\* the frame reaches the request, the call returns the frame's list, the
\* empty list for an empty response and never null; otherwise the request
\* stays pending.
C15_ChildrenMatchAndList ==
    chan = "open" =>
        \A msg \in Frames :
            \A n \in {Deliver(msg)} :
                \A k \in 1..Len(filters) :
                    filters[k].consumeMessage = "getCoinChildren" =>
                        /\ Accepts(filters[k], msg) <=>
                              /\ msg.type = "respond_children"
                              /\ \/ Len(msg.coinStates) = 0
                                 \/ Head(msg.coinStates).coin.parentCoinInfo
                                       = filters[k].hash
                        /\ IF Accepts(filters[k], msg) /\ FirstMatching(k, msg)
                           THEN /\ n.completion[filters[k].id] = "success"
                                /\ n.result[filters[k].id].tag = "list"
                                /\ n.result[filters[k].id].items = msg.coinStates
                           ELSE /\ n.completion[filters[k].id] = "pending"
                                /\ n.result[filters[k].id] = NoResult

\* a getCoinChildren call returned the empty list
C15_Witness ==
    \E i \in 1..Len(sent) :
        /\ sent[i].type = "request_children"
        /\ completion[i] = "success"
        /\ result[i] = Result("list", Null, << >>)

\* C16: the cached peak is null until a frame has been dispatched and it
\* changes only on a step that dispatches a new_peak_wallet frame, to that
\* frame's height; a step that ends a getBlockNumber call reports the
\* cached peak as it is, as a value and not as a failure, and changes
\* neither the registry, the frames sent, the completions, the channel nor
\* the cached peak.
C16_GetBlockNumberReadsCache ==
    /\ [](frameNo = 0 => blockNumber = Null)
    /\ [][/\ blockNumber' # blockNumber =>
                \E msg \in PeakFrames :
                    OnMessage(msg) /\ blockNumber' = msg.height
          /\ (last'.op = "getBlockNumber" /\ last' # last) =>
                /\ last'.ret = "value"
                /\ last'.n = blockNumber
                /\ UNCHANGED <<managerVars, providerVars>>
         ]_vars

\* on an open connection with a request in flight, getBlockNumber returned
\* the height of the second of two peak frames, the lower one
C16_Witness ==
    /\ chan = "open"
    /\ last = Last("getBlockNumber", "value", 1)
    /\ frameNo = 2
    /\ Len(filters) = 2

\* C17: the step on which a one-shot request's completion is fulfilled
\* takes its filter out of the registry, so no state in which a further
\* frame can be dispatched holds a one-shot filter that already consumed
\* one; a fulfilled request is never installed again and no later frame
\* changes its completion or its result.
C17_OneShotRemovedBeforeNextFrame ==
    /\ [](\A k \in 1..Len(filters) :
             filters[k].deleteAfterFirstMessageConsumed =>
                 completion[filters[k].id] = "pending")
    /\ [][\A i \in 1..MaxCalls :
             /\ (completion[i] = "pending" /\ completion'[i] = "success") =>
                   /\ frameNo' = frameNo + 1
                   /\ ~InstalledIn(filters', i)
                   /\ Len(filters') = Len(filters) - 1
             /\ completion[i] = "success" =>
                   /\ completion'[i] = "success"
                   /\ result'[i] = result[i]
                   /\ ~InstalledIn(filters', i)
         ]_vars

\* getBalance (call 1) consumed the first frame; the second frame, which
\* matches it too, went to the subscription registered after it (call 2)
C17_Witness ==
    /\ Len(sent) = 2
    /\ sent[1].type = "register_interest_in_puzzle_hash"
    /\ completion[1] = "success"
    /\ frameNo = 2
    /\ Len(cbLog[2]) = 1
    /\ cbLog[2][1].frame = 2

\* the oldest installed filter the frame matches, 0 when there is none
OldestMatching(msg) ==
    IF \E k \in 1..Len(filters) : Matches(filters[k], msg)
    THEN CHOOSE k \in 1..Len(filters) :
            Matches(filters[k], msg) /\ FirstMatching(k, msg)
    ELSE 0

\* C18: the registry holds the installed filters in the order of their
\* registration, whatever was removed in between; and whichever frame
\* arrives next, the dispatch stops at the oldest installed filter the
\* frame matches, and every other filter, matching or not, is left as it
\* was.
C18_OldestFilterWins ==
    /\ \A a, b \in 1..Len(filters) : a < b => filters[a].id < filters[b].id
    /\ chan = "open" =>
          \A msg \in SubscriptionFrames :
              \A n \in {Deliver(msg)} :
                  /\ Dispatch(msg).consumer = OldestMatching(msg)
                  /\ \A k \in 1..Len(filters) :
                        IF k = OldestMatching(msg)
                        THEN ConsumedBy(filters[k], n)
                        ELSE Untouched(filters[k], n)

\* after the peak watcher was removed by its deadline, a subscription and a
\* younger getBalance request for the same puzzle hash are installed, and
\* the frame for that hash went to the subscription
C18_Witness ==
    /\ ~Installed(0)
    /\ Len(filters) = 2
    /\ filters[1].consumeMessage = "subscribeToPuzzleHashUpdates"
    /\ filters[2].consumeMessage = "getBalance"
    /\ filters[1].hash = filters[2].hash
    /\ Len(cbLog[filters[1].id]) = 1
    /\ completion[filters[2].id] = "pending"

\* C19: a new_peak_wallet frame that cannot be decoded leaves the cached
\* peak height, the registry, every completion, every result and every
\* callback log as they were, whatever the state it arrives in; and after
\* a frame was dropped this way every later frame is dispatched as before:
\* a peak frame reaching the peak watcher sets the cached height, a frame
\* matching a one-shot request first completes and removes it, a frame
\* matching a subscription first invokes its callback once.
C19_DecodeErrorIsolated ==
    /\ [](chan = "open" =>
            /\ \A n \in {Deliver(BadPeakFrame)} :
                  /\ n.blockNumber = blockNumber
                  /\ n.filters = filters
                  /\ n.completion = completion
                  /\ n.result = result
                  /\ n.cbLog = cbLog
            /\ dropped > 0 =>
                  \A msg \in DecodeFrames \ {BadPeakFrame} :
                      \A n \in {Deliver(msg)} :
                          \A k \in 1..Len(filters) :
                              Matches(filters[k], msg) /\ FirstMatching(k, msg) =>
                                  IF filters[k].consumeMessage = "peakWatcher"
                                  THEN /\ n.blockNumber = msg.height
                                       /\ n.filters = filters
                                  ELSE IF filters[k].deleteAfterFirstMessageConsumed
                                  THEN /\ n.completion[filters[k].id] = "success"
                                       /\ ~InstalledIn(n.filters, filters[k].id)
                                  ELSE /\ Len(n.cbLog[filters[k].id])
                                            = Len(cbLog[filters[k].id]) + 1
                                       /\ n.filters = filters)
    /\ [][dropped' # dropped =>
             /\ dropped' = dropped + 1
             /\ frameNo' = frameNo + 1
             /\ UNCHANGED <<chan, filters, completion, result, cbLog,
                            blockNumber>>
         ]_vars

\* the first frame was dropped by the peak watcher for a decode error and
\* the second one reached the subscription's callback
C19_Witness ==
    /\ dropped = 1
    /\ frameNo = 2
    /\ \E k \in 1..Len(filters) :
          /\ filters[k].consumeMessage = "subscribeToPuzzleHashUpdates"
          /\ Len(cbLog[filters[k].id]) = 1
          /\ cbLog[filters[k].id][1].frame = 2

Resolved == {"success", "Timeout", "Cancelled"}

\* C20: an installed one-shot filter has a pending completion and a
\* positive deadline, and a pending completion has its filter installed;
\* a completion leaves pending in one step, to exactly one of success (on a
\* frame step, with a result), Timeout (on its deadline firing) or
\* Cancelled (on close), the same step removes the filter, and a resolved
\* completion and its result never change again; and every installed
\* one-shot filter eventually leaves the registry.
C20_ResolvedOnceAndRemoved ==
    /\ [](/\ \A k \in 1..Len(filters) :
                filters[k].deleteAfterFirstMessageConsumed =>
                    /\ completion[filters[k].id] = "pending"
                    /\ filters[k].expectedMaxRensponseWait > 0
          /\ \A i \in 1..MaxCalls :
                /\ completion[i] = "pending" => Installed(i)
                /\ completion[i] \in {"Timeout", "Cancelled"} =>
                      result[i] = NoResult
                /\ completion[i] = "success" => result[i] # NoResult)
    /\ [][\A i \in 1..MaxCalls :
             /\ completion[i] \in Resolved =>
                   /\ completion'[i] = completion[i]
                   /\ result'[i] = result[i]
                   /\ ~InstalledIn(filters', i)
             /\ (completion[i] = "pending" /\ completion'[i] # "pending") =>
                   /\ completion'[i] \in Resolved
                   /\ ~InstalledIn(filters', i)
                   /\ completion'[i] = "success" <=> frameNo' = frameNo + 1
                   /\ completion'[i] = "Timeout" <=>
                         timeoutsFired'[i] = timeoutsFired[i] + 1
                   /\ completion'[i] = "Cancelled" <=> chan' = "closed"
         ]_vars
    /\ \A i \in 1..MaxCalls :
          (completion[i] = "pending" /\ Installed(i)) ~> ~Installed(i)

\* after close: one request was answered by a frame, one ended by its
\* deadline, and the registry is empty
C20_Witness ==
    /\ chan = "closed"
    /\ filters = << >>
    /\ \E i, j \in 1..MaxCalls :
          /\ completion[i] = "success"
          /\ completion[j] = "Timeout"

\* C21 (as the specification states it): a pending getBalance request for
\* puzzle hash P behind an earlier subscribeToPuzzleHashUpdates subscription
\* for the same P completes, with a result, on every respond_to_ph_update
\* frame whose puzzleHashes contains P.
C21_GetBalanceCompletesBehindSubscription ==
    \A s, k \in 1..Len(filters) :
        (/\ s < k
         /\ filters[s].consumeMessage = "subscribeToPuzzleHashUpdates"
         /\ filters[k].consumeMessage = "getBalance"
         /\ filters[s].hash = filters[k].hash
         /\ completion[filters[k].id] = "pending") =>
            \A msg \in SubscriptionFrames :
                (/\ msg.type = "respond_to_ph_update"
                 /\ Includes(msg.hashes, filters[k].hash)) =>
                    \A n \in {Deliver(msg)} :
                        /\ n.completion[filters[k].id] = "success"
                        /\ n.result[filters[k].id] # NoResult

\* The full node's answer to request_children for coin c, on a chain where
\* coin h1 was spent creating csC and coin h2 has no children: the
\* respond_children frame carries the children and nothing else.
ChildrenReply(c) ==
    Msg("respond_children", << >>, "", Null, Null,
        IF c = "h1" THEN <<csC>> ELSE << >>)

\* C22 (as the specification states it): with two getCoinChildren requests
\* for different coin ids pending, in either registration order, the
\* node's reply to one of them completes that request and leaves the
\* other one pending.
C22_ReplyOnlyToItsRequest ==
    \A k, j \in 1..Len(filters) :
        (/\ filters[k].consumeMessage = "getCoinChildren"
         /\ filters[j].consumeMessage = "getCoinChildren"
         /\ filters[k].hash # filters[j].hash
         /\ completion[filters[k].id] = "pending"
         /\ completion[filters[j].id] = "pending") =>
            \A n \in {Deliver(ChildrenReply(filters[j].hash))} :
                /\ n.completion[filters[j].id] = "success"
                /\ n.completion[filters[k].id] = "pending"

====
